---- MODULE Spec2Model ----
(***************************************************************************)
(* Lumina ESP32 bridges.                                                   *)
(*                                                                         *)
(*   pull build  src/esp32-bridge/src/main.cpp       (Firestore polling)   *)
(*   push build  src/esp32-mqtt-bridge/src/main.cpp  (MQTT subscription)   *)
(*                                                                         *)
(* The two firmwares are separate builds that use the same global names    *)
(* (commandsProcessed, commandsFailed, lastBlinkTime); the variable build  *)
(* says which one a run is.                                                *)
(*                                                                         *)
(*   Spec          a run of either build                                   *)
(*   PullSpec      the pull build, write-backs and device requests may fail*)
(*   BatchSpec     the pull build, more commands than one cycle takes      *)
(*   PushSpec      the push build                                          *)
(*   FairPullSpec, FairPushSpec   loop() scheduled forever (weak fairness) *)
(*                                                                         *)
(* Time.  millis() is an unsigned 32-bit millisecond counter.  The model   *)
(* clock counts units of MsPerUnit = 8 ms, so that the wrap-around at 2^32 *)
(* ms is the wrap-around at 2^29 units; every interval of the code (2000,  *)
(* 5000, 30000 ms) is a whole number of units.  The fair specifications    *)
(* run forever, so they count on a narrower clock (NarrowWrap units, still *)
(* wider than every interval of the code) that keeps them finite.          *)
(*                                                                         *)
(* Strings.  A String of the code is a sequence of tokens, so that         *)
(* startsWith("ERROR:") is a test on the first token.                      *)
(***************************************************************************)
EXTENDS Integers, Sequences, FiniteSets, TLC

\* ------------------------------------------------------------------ bounds

\* Commands the remote side has created (pull build), in a run whose
\* write-backs all go through.
NumCmds == 6
\* Commands the remote side has created, in a run with failing write-backs.
FaultyCmds == 1
\* loop() iterations of one run.
MaxTicks == 3
\* Status write-backs (patchDocument) that fail in one run.
MaxPatchFaults == 2
\* Device requests that fail in one run.
MaxDeviceFaults == 1
\* Commands created with a missing target.
MaxBadTargets == 1
\* Messages the broker delivers in one run (push build).
MaxMessages == 1
\* Polls past its window that a wait loop of setup() is followed for.
MaxOverrun == 2

\* ------------------------------------------------------- program constants

POLL_INTERVAL_MS == 2000
MAX_COMMANDS_PER_POLL == 5
HTTP_CODE_OK == 200
FIREBASE_WAIT_MS == 30000
BLINK_INTERVAL_MS == 5000
RECONNECT_INTERVAL_MS == 5000
STATUS_PUBLISH_INTERVAL_MS == 30000
WIFI_ATTEMPTS == 30
WIFI_POLL_MS == 500
FIREBASE_POLL_MS == 500
PORTAL_TIMEOUT_MS == 180000

\* ------------------------------------------------------------------- state

VARIABLES
  build,              \* "pull" | "push"
  clock,              \* millis(), in units
  clockWrap,          \* the clock counts modulo clockWrap units
  ticks,              \* loop() iterations so far
  pc,                 \* "setup" | "loop" | "batch"
  wait,               \* the wait loops of setup(), when they are followed step by step
  lastBlinkTime,
  blinks,             \* blink count of the last heartbeat (0: none yet)
  commandsProcessed,
  commandsFailed,
  calls,              \* external calls of the last handled command, in order
  outcome,            \* terminal outcome of the last handled command
  handled,            \* the last handled command: id, intent, payload, device answer
  deviceBudget,       \* device requests that may still fail in this run
  finished,           \* calls of executeCommand / processCommand that have returned
  \* pull build
  firebaseReady,      \* the flag set by setupFirebase
  sessionReady,       \* what Firebase.ready() returns (environment)
  lastPollTime,
  tickReady,          \* Firebase.ready() as of the last loop() iteration
  tickDecision,       \* its poll decision: "idle" (not due) | "skipped" | "polled"
  remote,             \* the remote command documents
  query,              \* how the last runQuery went: "none" | "failed" | "malformed" | "ok"
  resp,               \* the query response being drained
  idx,                \* index of the next response entry
  executed,           \* executeCommand calls of the current poll cycle
  patched,            \* a patchDocument went through fbdo in this cycle
  fbdoKeeps,          \* fbdo still holds the query response after a patch
  iteratorDeep,       \* the FirebaseJson iterator enumerates nested elements
  storeFaulty,        \* the store may answer a query with a malformed response
  writes,             \* per command: the status values written remotely
  terminalized,       \* per command: the bridge decided completed/failed
  retried,            \* per command: device request after terminalizing
  requests,           \* per command: device requests issued
  patchBudget,        \* write-backs that may still fail in this run
  \* push build
  wifiConnected,      \* the flag set by setupWiFi
  mqttConnected,      \* the flag set by connectMQTT
  brokerUp,           \* the broker is reachable (environment)
  link,               \* what mqttClient.connected() returns
  subscribed,         \* a subscribe was issued on the current session
  sessionCalls,       \* client calls of the last connectMQTT, in order
  lastReconnectAttempt,
  lastStatusPublish,
  msgBudget,          \* messages the broker may still deliver
  inbox,              \* the messages the remote side may publish in this run
  downSeen,           \* a loop() iteration has seen the current outage
  tick,               \* what the last loop() iteration of the push build did
  attemptAt,          \* millis() of the last connect attempt
  attemptFailed,      \* whether it failed
  gap,                \* time between the last attempt and the failed one
                      \* before it (-1: none, or the one before succeeded)
  jumped              \* the long uneventful stretch of the run is behind

handlerVars == <<commandsProcessed, commandsFailed, calls, outcome, handled,
                 deviceBudget, finished>>

\* What is fixed for a run of the pull build: what depends on the libraries
\* it links, and whether the store answers with malformed responses.
libVars == <<fbdoKeeps, iteratorDeep, storeFaulty>>

blinkVars == <<lastBlinkTime, blinks>>

pollVars == <<query, resp, idx, executed, patched>>

trackVars == <<writes, terminalized, retried, requests, patchBudget>>

pullVars == <<firebaseReady, sessionReady, lastPollTime, tickReady, tickDecision,
              remote, pollVars, libVars, trackVars>>

sessionVars == <<mqttConnected, link, subscribed, sessionCalls>>

attemptVars == <<lastReconnectAttempt, downSeen, attemptAt, attemptFailed, gap>>

pushVars == <<wifiConnected, brokerUp, sessionVars, lastStatusPublish, msgBudget, inbox,
              tick, attemptVars, jumped>>

vars == <<build, clock, clockWrap, ticks, pc, wait, blinkVars, handlerVars, pullVars,
          pushVars>>

Cmds == 1..NumCmds

\* ------------------------------------------------------------------- clock

MsPerUnit == 2^3
ClockWrap == 2^29
NarrowWrap == 2^12

Units(ms) == ms \div MsPerUnit

\* millis() - t in unsigned arithmetic.
Elapsed(now, t) == (now - t + clockWrap) % clockWrap

Advance(now, d) == (now + d) % clockWrap

\* ------------------------------------------------------------ strings

ERROR_PREFIX == "ERROR:"

StartsWithError(s) == Len(s) > 0 /\ s[1] = ERROR_PREFIX

EmptyString == <<>>

NoControllerIp == <<"No", "controller", "IP", "specified">>

\* ------------------------------------------------------------ device client

\* What the device (or the transport) answers to one request.
DeviceAnswers ==
  { [code |-> 200, body |-> <<"{json}">>],
    [code |-> 200, body |-> <<"ERROR:", "busy">>],
    [code |-> 204, body |-> <<>>],
    [code |-> 500, body |-> <<"oops">>],
    [code |-> -1,  body |-> <<>>] }

ErrorToString(code) == <<"transport", ToString(code)>>

\* A request that hands back the body of whatever answer it gets.
AnyAnswer(method, ans) == ans.body

\* makeWledRequest: the String handed back.
MakeWledRequest(method, ans) ==
  IF method \notin {"GET", "POST"}
    THEN <<ERROR_PREFIX, "Unsupported", "method">>
    ELSE IF ans.code > 0
      THEN IF ans.code = HTTP_CODE_OK
             THEN ans.body
             ELSE <<ERROR_PREFIX, "HTTP", ToString(ans.code)>>
      ELSE <<ERROR_PREFIX>> \o ErrorToString(ans.code)

\* No answer: the device was not asked.
NoAnswer == [code |-> 0, body |-> <<>>]

\* An answer other than the usual one (200 with a JSON body) counts against
\* deviceBudget.
DeviceFails(ans) ==
  IF ans.code = HTTP_CODE_OK /\ ~StartsWithError(ans.body) THEN 0 ELSE 1

\* A count of attempts: every handled command counts as processed, and a
\* failed one as failed as well.
CountAttempts(failed) ==
  /\ commandsProcessed' = commandsProcessed + 1
  /\ commandsFailed' = IF failed THEN commandsFailed + 1 ELSE commandsFailed

\* commandsFailed++ where a command has failed, commandsProcessed++ where it
\* has completed.
CountOutcome(failed) ==
  IF failed
    THEN /\ commandsFailed' = commandsFailed + 1
         /\ UNCHANGED commandsProcessed
    ELSE /\ commandsProcessed' = commandsProcessed + 1
         /\ UNCHANGED commandsFailed

DeviceCall(c, ip, req) == [op |-> "device", id |-> c, ip |-> ip, req |-> req]

\* ------------------------------------------------------------ JSON

\* A JSON value: kind is "object", "array", "string", "number" or "bool"; lit
\* is the literal of a scalar; kids are the members of an object (key, val)
\* or the elements of an array (key "").
JScalar(kind, lit) == [kind |-> kind, lit |-> lit, kids |-> <<>>]

JObject(kids) == [kind |-> "object", lit |-> "", kids |-> kids]

JArray(vals) ==
  [kind |-> "array", lit |-> "",
   kids |-> [i \in 1..Len(vals) |-> [key |-> "", val |-> vals[i]]]]

Member(key, val) == [key |-> key, val |-> val]

\* A typed value as the remote store holds it: tag names its type, lit is the
\* literal of a scalar, kids are the fields of a map or the elements of an
\* array.
Typed(tag, lit) == [tag |-> tag, lit |-> lit, kids |-> <<>>]

TypedArray(vals) ==
  [tag |-> "array", lit |-> "",
   kids |-> [i \in 1..Len(vals) |-> [key |-> "", val |-> vals[i]]]]

TypedMap(kids) == [tag |-> "map", lit |-> "", kids |-> kids]

RECURSIVE WireNode(_)
\* The node of the Firestore REST encoding for a typed value, such as
\* {"booleanValue": true}, {"integerValue": "128"},
\* {"arrayValue": {"values": [...]}}, {"mapValue": {"fields": {...}}}.
WireNode(v) ==
  IF v.tag = "array"
    THEN JObject(<<Member("arrayValue",
           JObject(<<Member("values",
             JArray([i \in 1..Len(v.kids) |-> WireNode(v.kids[i].val)]))>>))>>)
  ELSE IF v.tag = "map"
    THEN JObject(<<Member("mapValue",
           JObject(<<Member("fields",
             JObject([i \in 1..Len(v.kids) |->
                        Member(v.kids[i].key, WireNode(v.kids[i].val))]))>>))>>)
  ELSE IF v.tag = "boolean"
    THEN JObject(<<Member("booleanValue", JScalar("bool", v.lit))>>)
  ELSE IF v.tag = "double"
    THEN JObject(<<Member("doubleValue", JScalar("number", v.lit))>>)
  ELSE JObject(<<Member(v.tag \o "Value", JScalar("string", v.lit))>>)

\* payload/mapValue/fields of a command document whose payload is the map
\* with these fields.
WireFields(kids) ==
  JObject([i \in 1..Len(kids) |-> Member(kids[i].key, WireNode(kids[i].val))])

RECURSIVE PlainJson(_)
\* The plain JSON of a typed value: the same tree with the tags erased.
PlainJson(v) ==
  IF v.tag = "array"
    THEN JArray([i \in 1..Len(v.kids) |-> PlainJson(v.kids[i].val)])
  ELSE IF v.tag = "map"
    THEN JObject([i \in 1..Len(v.kids) |->
                    Member(v.kids[i].key, PlainJson(v.kids[i].val))])
  ELSE IF v.tag = "boolean" THEN JScalar("bool", v.lit)
  ELSE IF v.tag \in {"integer", "double"} THEN JScalar("number", v.lit)
  ELSE JScalar("string", v.lit)

\* FirebaseJson::get(v, key) on an object: whether it has the member.
HasMember(node, key) ==
  node.kind = "object" /\ \E i \in 1..Len(node.kids) : node.kids[i].key = key

GetMember(node, key) ==
  node.kids[CHOOSE i \in 1..Len(node.kids) : node.kids[i].key = key].val

\* doc[key] = val of ArduinoJson: replaces the member in place, or appends it.
SetMember(kids, key, val) ==
  IF \E i \in 1..Len(kids) : kids[i].key = key
    THEN [i \in 1..Len(kids) |->
            IF kids[i].key = key THEN Member(key, val) ELSE kids[i]]
    ELSE Append(kids, Member(key, val))

RECURSIVE Flatten(_)
\* The members and elements of a JSON value at every depth, in document order.
Flatten(node) ==
  LET RECURSIVE From(_)
      From(i) == IF i > Len(node.kids) THEN <<>>
                 ELSE <<node.kids[i]>> \o Flatten(node.kids[i].val) \o From(i + 1)
  IN  From(1)

\* What iteratorBegin/iteratorGet of FirebaseJson enumerate: the members of
\* the object, or (deep) the members and elements at every depth.  Which one
\* is a property of the FirebaseJson version the build links.
IteratorElements(node, deep) == IF deep THEN Flatten(node) ELSE node.kids

\* A conversion that hands a value of a type it does not know to the device as
\* it is.
PassUnknown(doc, key, fieldValue) ==
  LET Known(tag) == HasMember(fieldValue, tag \o "Value")
      Scalar(kind, tag) ==
        SetMember(doc, key, JScalar(kind, GetMember(fieldValue, tag \o "Value").lit))
  IN  IF Known("boolean") THEN Scalar("bool", "boolean")
      ELSE IF Known("integer") THEN Scalar("number", "integer")
      ELSE IF Known("double") THEN Scalar("number", "double")
      ELSE IF Known("string") THEN Scalar("string", "string")
      ELSE IF Known("array") THEN SetMember(doc, key, GetMember(fieldValue, "arrayValue"))
      ELSE IF Known("map") THEN SetMember(doc, key, GetMember(fieldValue, "mapValue"))
      ELSE SetMember(doc, key, fieldValue)

\* convertFirestorePayloadToJson, lines 427-451: one element of the iteration
\* whose value is the object fieldValue; doc is given by its members.
ConvertField(doc, key, fieldValue) ==
  IF HasMember(fieldValue, "booleanValue")
    THEN SetMember(doc, key, JScalar("bool", GetMember(fieldValue, "booleanValue").lit))
  ELSE IF HasMember(fieldValue, "integerValue")
    THEN SetMember(doc, key, JScalar("number", GetMember(fieldValue, "integerValue").lit))
  ELSE IF HasMember(fieldValue, "doubleValue")
    THEN SetMember(doc, key, JScalar("number", GetMember(fieldValue, "doubleValue").lit))
  ELSE IF HasMember(fieldValue, "stringValue")
    THEN SetMember(doc, key, JScalar("string", GetMember(fieldValue, "stringValue").lit))
  ELSE IF HasMember(fieldValue, "arrayValue")
    THEN SetMember(doc, key, GetMember(fieldValue, "arrayValue"))
  ELSE IF HasMember(fieldValue, "mapValue")
    THEN SetMember(doc, key, GetMember(fieldValue, "mapValue"))
  ELSE doc

\* convertFirestorePayloadToJson(fields).  payload is the payload field of the
\* document: <<>> when it is absent or no map, <<kids>> when it is the map
\* with the fields kids.  The result is the String serializeJson makes of
\* doc: of a JSON object, or null when no member was set (lines 454-456).
ConvertFirestorePayloadToJson(payload, deep) ==
  IF payload = <<>>
    THEN <<JObject(<<>>)>>
    ELSE LET elements == IteratorElements(WireFields(payload[1]), deep)
             RECURSIVE Upto(_)
             Upto(i) ==
               IF i = 0 THEN <<>>
               ELSE IF elements[i].val.kind = "object"
                 THEN ConvertField(Upto(i - 1), elements[i].key, elements[i].val)
                 ELSE Upto(i - 1)
             members == Upto(Len(elements))
         IN  IF members = <<>> THEN <<JScalar("null", "null")>>
             ELSE <<JObject(members)>>

\* serializeJson(cmdPayload, body) of the push build: the payload of the
\* message as it is, or null when the message has no payload object.
SerializeJson(payload) ==
  IF payload = <<>> THEN <<JScalar("null", "null")>> ELSE <<payload[1]>>

\* ------------------------------------------------------------ remote store

\* An optional field: <<>> when absent, <<v>> when present with value v.
Absent == <<>>
Some(v) == <<v>>

Terminal == {"completed", "failed"}

\* Values of controllerIp the remote side may set: the field absent, the
\* empty string, an address.
DeviceIp == <<"10.0.0.5">>
Targets == {Absent, Some(EmptyString), Some(DeviceIp)}
BadTargets == {Absent, Some(EmptyString)}

NewDoc(target, type, payload) ==
  [exists |-> TRUE, status |-> "pending", controllerIp |-> target,
   type |-> type, payload |-> payload,
   completedAt |-> Absent, error |-> Absent, result |-> Absent]

NoDoc ==
  [exists |-> FALSE, status |-> "pending", controllerIp |-> Absent,
   type |-> "", payload |-> Absent,
   completedAt |-> Absent, error |-> Absent, result |-> Absent]

\* updateCommandStatus, line 540: the field mask of every patchDocument call.
UpdateMask == {"status", "completedAt", "error", "result"}

\* The value of field f after a patch with the given mask: a masked field takes
\* the value the update carries and is deleted when the update carries none; a
\* field outside the mask keeps its value.
Patched(old, content, mask, f) ==
  IF f \notin mask THEN old
  ELSE IF f \in DOMAIN content THEN Some(content[f]) ELSE Absent

\* The document after patchDocument(content, UpdateMask).
PatchDocument(doc, content) ==
  [doc EXCEPT
     !.status      = IF "status" \in DOMAIN content
                       THEN content.status ELSE doc.status,
     !.completedAt = Patched(doc.completedAt, content, UpdateMask, "completedAt"),
     !.error       = Patched(doc.error, content, UpdateMask, "error"),
     !.result      = Patched(doc.result, content, UpdateMask, "result")]

\* An update document that stamps every write.
StampedContent(status, error, hasResult, result) ==
  LET base == [status |-> status, completedAt |-> "now"]
      withError == IF error # <<>> THEN base @@ [error |-> error] ELSE base
  IN  IF hasResult THEN withError @@ [result |-> result] ELSE withError

\* updateCommandStatus: the update document it builds.
UpdateContent(status, error, hasResult, result) ==
  LET base == [status |-> status]
      withTime == IF status \in {"completed", "failed", "timeout"}
                    THEN base @@ [completedAt |-> "now"] ELSE base
      withError == IF error # EmptyString
                     THEN withTime @@ [error |-> error] ELSE withTime
  IN  IF hasResult THEN withError @@ [result |-> result] ELSE withError

\* updateCommandStatus, lines 538-541: the patchDocument call.
PatchCall(c, content) ==
  [op |-> "patch", id |-> c, mask |-> UpdateMask, content |-> content]

\* A status update that tries once more when its patch has failed.
RetryingUpdate(c, content, ok) ==
  IF ok THEN <<PatchCall(c, content)>>
  ELSE <<PatchCall(c, content), PatchCall(c, content)>>

\* updateCommandStatus, lines 538-546: the calls it makes, whether its
\* patchDocument goes through (ok) or fails, which is only logged.
UpdateCommandStatus(c, content, ok) == <<PatchCall(c, content)>>

\* The document after one write-back that went through (ok) or failed.
Written(doc, content, ok) == IF ok THEN PatchDocument(doc, content) ELSE doc

Fails(ok) == IF ok THEN 0 ELSE 1

\* A limit no query result reaches.
NoQueryLimit == NumCmds + 1

\* pollCommands, line 241: the limit of the structured query.
QueryLimit == MAX_COMMANDS_PER_POLL

\* A filter that takes every command document.
AnyStatus(doc) == doc.exists

\* pollCommands, lines 236-238: the filter of the structured query.
PendingFilter(doc) == doc.exists /\ doc.status = "pending"

RECURSIVE Ascending(_)
\* The members of a set of command ids, oldest (smallest id) first.
Ascending(S) ==
  IF S = {} THEN <<>>
  ELSE LET m == CHOOSE x \in S : \A y \in S : x <= y
       IN  <<m>> \o Ascending(S \ {m})

\* The store's answer to: where status == "pending" order by createdAt
\* ascending limit QueryLimit.
RunQuery(docs) ==
  LET found == Ascending({c \in Cmds : PendingFilter(docs[c])})
  IN  SubSeq(found, 1, IF Len(found) < QueryLimit THEN Len(found) ELSE QueryLimit)

\* What fbdo.jsonArray() holds after a successful runQuery: the documents, or
\* one entry without a document when nothing matched.  0 stands for an entry
\* without document/name.
QueryResponses(docs) ==
  IF RunQuery(docs) = <<>> THEN {<<>>, <<0>>} ELSE {RunQuery(docs)}

\* Malformed answers to the query: a payload that is no array of results, or
\* the results with one entry that has no document/name.
MalformedResponses(docs) ==
  {<<>>} \cup {[RunQuery(docs) EXCEPT ![i] = 0] : i \in 1..Len(RunQuery(docs))}

\* ------------------------------------------------------------ pull: setup

\* The wait loops of setup() are not followed step by step: setup() is taken
\* as one step.
NoWait ==
  [phase |-> "none", attempts |-> 0, elapsed |-> 0, upAfter |-> 0, readyAfter |-> 0]

\* A wait loop of setup() is entered.  phase is "firebase" (setupFirebase) or
\* "wifi" (setupWiFi); WiFi.status() is WL_CONNECTED from the poll upAfter
\* on, Firebase.ready() is true from readyAfter ms on.
Waiting(phase, upAfter, readyAfter) ==
  [phase |-> phase, attempts |-> 0, elapsed |-> 0, upAfter |-> upAfter,
   readyAfter |-> readyAfter]

\* What Firebase.ready() returns elapsed ms after the wait began.
FirebaseReady(w) == w.readyAfter <= w.elapsed

\* A wait without a window.
WaitUntilReady(ready, elapsed) == ~ready

\* setupFirebase, line 208: the condition of the while loop.
FirebaseWaitGoesOn(ready, elapsed) == ~ready /\ elapsed < FIREBASE_WAIT_MS

\* setupFirebase, lines 208-211: one test of the while loop; the loop goes on
\* with a delay of FIREBASE_POLL_MS or is left.
FirebaseWaitStep ==
  /\ build = "pull"
  /\ pc = "setup"
  /\ wait.phase = "firebase"
  /\ wait.elapsed <= FIREBASE_WAIT_MS + MaxOverrun * FIREBASE_POLL_MS
  /\ wait' = IF FirebaseWaitGoesOn(FirebaseReady(wait), wait.elapsed)
               THEN [wait EXCEPT !.attempts = @ + 1, !.elapsed = @ + FIREBASE_POLL_MS]
               ELSE [wait EXCEPT !.phase = "done"]
  /\ UNCHANGED <<build, clock, clockWrap, ticks, pc, blinkVars, handlerVars, pullVars,
                 pushVars>>

\* Time setup() takes beside the wait of setupFirebase (delays and blinks).
SetupDelayMs == 3000

\* setup(): setupFirebase waits until Firebase.ready() or FIREBASE_WAIT_MS
\* have passed, and sets firebaseReady only when the session was ready.
Setup ==
  /\ build = "pull"
  /\ pc = "setup"
  /\ wait.phase \in {"none", "done"}
  /\ \E ready \in (IF wait.phase = "none" THEN BOOLEAN ELSE {FirebaseReady(wait)}) :
       /\ sessionReady' = ready
       /\ firebaseReady' = ready
       /\ clock' = IF wait.phase = "done"
                     THEN Units(SetupDelayMs + wait.elapsed) % clockWrap
                   ELSE IF ready THEN Units(SetupDelayMs) % clockWrap
                   ELSE Units(SetupDelayMs + FIREBASE_WAIT_MS) % clockWrap
  /\ pc' = "loop"
  /\ UNCHANGED <<build, wait, clockWrap, ticks, blinkVars, handlerVars, lastPollTime,
                 tickReady, tickDecision, remote, pollVars, libVars, trackVars,
                 pushVars>>

\* The remote session comes up or goes down (token expiry, network).
SessionChange ==
  /\ build = "pull"
  /\ pc = "loop"
  /\ sessionReady' = ~sessionReady
  /\ UNCHANGED <<build, wait, clock, clockWrap, ticks, pc, blinkVars, handlerVars,
                 firebaseReady, lastPollTime, tickReady, tickDecision, remote,
                 pollVars, libVars, trackVars, pushVars>>

\* ------------------------------------------------------------ pull: loop

\* statusBlink of the pull build, entered at time now.
StatusBlink(now, wifiUp) ==
  IF Elapsed(now, lastBlinkTime) >= Units(BLINK_INTERVAL_MS)
    THEN /\ lastBlinkTime' = now
         /\ blinks' = IF firebaseReady /\ wifiUp THEN 1
                      ELSE IF wifiUp THEN 2 ELSE 3
    ELSE UNCHANGED blinkVars

\* pollCommands up to the start of the for loop.
PollCommands ==
  /\ executed' = 0
  /\ patched' = FALSE
  /\ idx' = 1
  /\ \/ \* runQuery failed
        /\ query' = "failed"
        /\ resp' = <<>>
        /\ pc' = "loop"
     \/ \E r \in QueryResponses(remote) :
          /\ query' = "ok"
          /\ resp' = r
          /\ pc' = IF r = <<>> THEN "loop" ELSE "batch"
     \/ /\ storeFaulty
        /\ \E r \in MalformedResponses(remote) :
             /\ query' = "malformed"
             /\ resp' = r
             /\ pc' = IF r = <<>> THEN "loop" ELSE "batch"

\* The test on the clock values as numbers, without the unsigned difference.
PollDueAbsolute(now) == now >= lastPollTime + Units(POLL_INTERVAL_MS)

\* loop(), line 112: it is time to poll.
PollDue(now) == Elapsed(now, lastPollTime) >= Units(POLL_INTERVAL_MS)

\* A readiness test that trusts the flag set at setup.
FlagOnly == firebaseReady

\* loop(), line 115: the readiness test of the poll decision.
ReadyToPoll == firebaseReady /\ sessionReady

\* loop() entered d units after it was last entered: heartbeat, then the
\* poll decision.
LoopBody(d) ==
  /\ build = "pull"
  /\ pc = "loop"
  /\ clock' = Advance(clock, d)
  /\ \E wifiUp \in BOOLEAN : StatusBlink(clock', wifiUp)
  /\ tickReady' = sessionReady
  /\ IF PollDue(clock')
       THEN /\ lastPollTime' = clock'
            /\ IF ReadyToPoll
                 THEN /\ tickDecision' = "polled"
                      /\ PollCommands
                 ELSE /\ tickDecision' = "skipped"
                      /\ UNCHANGED <<pc, pollVars>>
       ELSE /\ tickDecision' = "idle"
            /\ UNCHANGED <<pc, lastPollTime, pollVars>>
  /\ UNCHANGED <<build, wait, clockWrap, handlerVars, firebaseReady, sessionReady, remote,
                 libVars, trackVars, pushVars>>

\* Elapsed times between two entries of loop().
LoopDelays == {Units(16), Units(POLL_INTERVAL_MS)}

Loop ==
  /\ ticks < MaxTicks
  /\ ticks' = ticks + 1
  /\ \E d \in LoopDelays : LoopBody(d)

\* ------------------------------------------------------------ pull: engine

\* The type field of the commands the remote side creates, by command id.
CommandTypes ==
  <<"getState", "setState", "applyConfig", "getInfo", "", "fade">>

TypeById(c) == CommandTypes[((c - 1) % Len(CommandTypes)) + 1]

\* executeCommand, lines 309-315: the type it reads ("" when absent).
CommandType(c) == remote[c].type

\* A mapper without a table: every command is a state update.
AllPost(commandType, body) ==
  [method |-> "POST", endpoint |-> "/json/state", body |-> body]

\* A mapper that keeps the read request of the command before it.
StickyMethod(commandType, body) ==
  IF commandType = "getInfo"
    THEN [method |-> "GET", endpoint |-> "/json/info", body |-> EmptyString]
  ELSE IF commandType = "getState" \/ handled.intent = "getState"
    THEN [method |-> "GET", endpoint |-> "/json/state", body |-> EmptyString]
  ELSE IF commandType \in {"applyConfig", "configureSyncReceiver", "configureSyncSender"}
    THEN [method |-> "POST", endpoint |-> "/json/cfg", body |-> body]
  ELSE [method |-> "POST", endpoint |-> "/json/state", body |-> body]

\* executeCommand, lines 350-377: endpoint, method and body by command type;
\* body is what convertFirestorePayloadToJson(fields) returns.
MapIntentPull(commandType, body) ==
  IF commandType = "getState"
    THEN [method |-> "GET", endpoint |-> "/json/state", body |-> EmptyString]
  ELSE IF commandType = "getInfo"
    THEN [method |-> "GET", endpoint |-> "/json/info", body |-> EmptyString]
  ELSE IF commandType \in {"setState", "applyJson", "renameSegment", "applyToSegments"}
    THEN [method |-> "POST", endpoint |-> "/json/state", body |-> body]
  ELSE IF commandType \in {"applyConfig", "configureSyncReceiver", "configureSyncSender"}
    THEN [method |-> "POST", endpoint |-> "/json/cfg", body |-> body]
  ELSE [method |-> "POST", endpoint |-> "/json/state", body |-> body]

\* The controllerIp executeCommand reads: "" when the field is absent.
ControllerIp(doc) ==
  IF doc.controllerIp = Absent THEN EmptyString ELSE doc.controllerIp[1]

\* A validation that only notices the absent field.
AbsentTargetOnly(doc) == doc.controllerIp = Absent

\* executeCommand, line 340: the command has no target.
MissingTarget(doc) == ControllerIp(doc) = EmptyString

\* A handler that asks the device before it marks the command as executing.
DeviceFirst(marking, request, report) == request \o marking \o report

\* executeCommand, lines 347-399: the calls of a command with a target, in
\* their order: the 'executing' write-back, the device request, the terminal
\* write-back.
Lifecycle(marking, request, report) == marking \o request \o report

\* executeCommand(c, fields).  execOk and termOk say whether the 'executing'
\* and the terminal patchDocument go through; ans is the device's answer.
ExecuteCommand(c, execOk, ans, termOk) ==
  LET doc == remote[c]
  IN  IF MissingTarget(doc)
        THEN LET content == UpdateContent("failed", NoControllerIp, FALSE, EmptyString)
             IN  /\ Fails(termOk) <= patchBudget
                 /\ remote' = [remote EXCEPT ![c] = Written(doc, content, termOk)]
                 /\ writes' = [writes EXCEPT ![c] =
                                 IF termOk THEN Append(@, "failed") ELSE @]
                 /\ patchBudget' = patchBudget - Fails(termOk)
                 /\ calls' = UpdateCommandStatus(c, content, termOk)
                 /\ outcome' = "failed"
                 /\ handled' = [id |-> c, intent |-> CommandType(c),
                                payload |-> doc.payload, ans |-> NoAnswer]
                 /\ CountOutcome(TRUE)
                 /\ terminalized' = [terminalized EXCEPT ![c] = TRUE]
                 /\ UNCHANGED <<retried, requests, deviceBudget>>
        ELSE LET executing == UpdateContent("executing", EmptyString, FALSE, EmptyString)
                 req == MapIntentPull(CommandType(c),
                          ConvertFirestorePayloadToJson(doc.payload, iteratorDeep))
                 response == MakeWledRequest(req.method, ans)
                 failed == StartsWithError(response)
                 final == IF failed
                            THEN UpdateContent("failed", response, FALSE, EmptyString)
                            ELSE UpdateContent("completed", EmptyString, TRUE, response)
                 doc1 == Written(doc, executing, execOk)
                 doc2 == Written(doc1, final, termOk)
             IN  /\ Fails(execOk) + Fails(termOk) <= patchBudget
                 /\ DeviceFails(ans) <= deviceBudget
                 /\ remote' = [remote EXCEPT ![c] = doc2]
                 /\ writes' = [writes EXCEPT ![c] =
                                 (IF execOk THEN Append(@, "executing") ELSE @)
                                 \o (IF termOk THEN <<final.status>> ELSE <<>>)]
                 /\ patchBudget' = patchBudget - Fails(execOk) - Fails(termOk)
                 /\ deviceBudget' = deviceBudget - DeviceFails(ans)
                 /\ calls' = Lifecycle(UpdateCommandStatus(c, executing, execOk),
                                      <<DeviceCall(c, ControllerIp(doc), req)>>,
                                      UpdateCommandStatus(c, final, termOk))
                 /\ outcome' = final.status
                 /\ handled' = [id |-> c, intent |-> CommandType(c),
                                payload |-> doc.payload, ans |-> ans]
                 /\ CountOutcome(failed)
                 /\ retried' = [retried EXCEPT ![c] = @ \/ terminalized[c]]
                 /\ requests' = [requests EXCEPT ![c] = @ + 1]
                 /\ terminalized' = [terminalized EXCEPT ![c] = TRUE]

\* A batch that gives loop() its turn after every entry.
LeaveBatch(i, r) == "loop"

\* pollCommands, line 263: after entry i the for loop goes on with the next
\* entry of the response r, and pollCommands returns to loop() after the last.
AfterEntry(i, r) == IF i + 1 > Len(r) THEN "loop" ELSE "batch"

\* One pass of the for loop of pollCommands (lines 263-285) over entry idx.
\* The entry is skipped when it has no document/name, or when it cannot be
\* read back from fbdo: the write-backs of the earlier commands of the batch
\* have used fbdo for their own requests, and whether fbdo.jsonArray() then
\* still holds the query response is a property of the Firebase library the
\* build links (fbdoKeeps).
ExecStep ==
  /\ build = "pull"
  /\ pc = "batch"
  /\ idx <= Len(resp)
  /\ idx' = idx + 1
  /\ pc' = AfterEntry(idx, resp)
  /\ \/ /\ resp[idx] = 0 \/ (patched /\ ~fbdoKeeps)
        /\ UNCHANGED <<handlerVars, remote, executed, patched, trackVars>>
     \/ /\ resp[idx] # 0
        /\ ~patched \/ fbdoKeeps
        /\ executed' = executed + 1
        /\ finished' = finished + 1
        /\ patched' = TRUE
        /\ \E execOk \in BOOLEAN, termOk \in BOOLEAN, ans \in DeviceAnswers :
             ExecuteCommand(resp[idx], execOk, ans, termOk)
  /\ UNCHANGED <<build, wait, clock, clockWrap, ticks, blinkVars, firebaseReady,
                 sessionReady, lastPollTime, tickReady, tickDecision, query, resp,
                 libVars, pushVars>>

\* ------------------------------------------------------------ boot

\* The push build's variables in a run of the pull build, and at boot.
PushIdle ==
  /\ wifiConnected = FALSE /\ mqttConnected = FALSE
  /\ brokerUp = FALSE /\ link = FALSE /\ subscribed = FALSE
  /\ sessionCalls = <<>>
  /\ lastReconnectAttempt = 0 /\ lastStatusPublish = 0
  /\ downSeen = FALSE
  /\ tick = [down |-> FALSE, first |-> FALSE, attempted |-> FALSE,
             looped |-> FALSE, delivered |-> FALSE, published |-> "none"]
  /\ attemptAt = 0 /\ attemptFailed = FALSE /\ gap = -1
  /\ jumped = FALSE

\* The pull build's variables in a run of the push build, and at boot.
PullIdle ==
  /\ firebaseReady = FALSE /\ sessionReady = FALSE
  /\ lastPollTime = 0 /\ tickReady = FALSE /\ tickDecision = "idle"
  /\ query = "none" /\ resp = <<>> /\ idx = 1 /\ executed = 0 /\ patched = FALSE
  /\ writes = [c \in Cmds |-> <<>>]
  /\ terminalized = [c \in Cmds |-> FALSE]
  /\ retried = [c \in Cmds |-> FALSE]
  /\ requests = [c \in Cmds |-> 0]

\* The globals both builds initialize (lines 41-48 of either main.cpp).
Globals ==
  /\ clock = 0 /\ ticks = 0 /\ pc = "setup"
  /\ lastBlinkTime = 0 /\ blinks = 0
  /\ commandsProcessed = 0 /\ commandsFailed = 0 /\ finished = 0
  /\ calls = <<>> /\ outcome = "none"
  /\ handled = [id |-> 0, intent |-> "", payload |-> Absent, ans |-> NoAnswer]

\* Values of payload fields: the scalars, a value of a type the decoder does
\* not know (a timestamp), an array of scalars, an array of maps (a list of
\* segments), a map, and a map in a map.
PayloadValues ==
  LET id == Typed("integer", "0")
      name == Typed("string", "roof")
      segment == TypedMap(<<Member("id", id), Member("n", name)>>)
  IN  { Typed("boolean", "true"), Typed("integer", "128"), Typed("double", "0.5"),
        Typed("string", "abc"), Typed("timestamp", "2024-01-01T00:00:00Z"),
        TypedArray(<<id, Typed("integer", "128")>>),
        TypedArray(<<segment>>),
        segment,
        TypedMap(<<Member("udpn", TypedMap(<<Member("send", Typed("boolean", "true"))>>))>>) }

\* The payload field of a command document: absent, or a map of up to two
\* fields.
Payloads ==
  {Absent, Some(<<>>)}
    \cup {Some(<<Member("seg", v)>>) : v \in PayloadValues}
    \cup {Some(<<Member("on", Typed("boolean", "true")), Member("seg", v)>>) :
             v \in PayloadValues}
    \cup {Some(<<Member("seg", v), Member("bri", Typed("integer", "128"))>>) :
             v \in PayloadValues}

DefaultPayload ==
  Some(<<Member("on", Typed("boolean", "true")), Member("bri", Typed("integer", "128"))>>)

\* Values of the type field (pull) and of the action field (push).
Intents ==
  {"getState", "getInfo", "setState", "applyJson", "renameSegment", "applyToSegments",
   "applyConfig", "setConfig", "configureSyncReceiver", "configureSyncSender",
   "", "fade"}

\* The inputs of a run in which the commands have the types TypeById and the
\* default payload.
ById ==
  [types |-> {}, payloads |-> {DefaultPayload}, deep |-> {FALSE}, faulty |-> {FALSE}]

\* The pull build boots.  Commands 1..n (n <= maxCmds) exist, all pending, at
\* most MaxBadTargets of them without a target.  inputs gives the types and
\* the payloads they may have, and what the FirebaseJson iterator may do.
BootAt(wrap, maxCmds, patchFaults, deviceFaults, inputs, waits) ==
  /\ build = "pull"
  /\ wait \in waits
  /\ clockWrap = wrap
  /\ Globals
  /\ PullIdle
  /\ PushIdle
  /\ msgBudget = 0
  /\ inbox = {}
  /\ \E n \in 0..maxCmds :
       \E t \in [1..n -> Targets] :
         /\ Cardinality({c \in 1..n : t[c] \in BadTargets}) <= MaxBadTargets
         /\ \E ty \in [1..n -> IF inputs.types = {} THEN {""} ELSE inputs.types] :
              \E pl \in [1..n -> inputs.payloads] :
                remote = [c \in Cmds |->
                            IF c > n THEN NoDoc
                            ELSE NewDoc(t[c],
                                        IF inputs.types = {} THEN TypeById(c) ELSE ty[c],
                                        pl[c])]
  /\ fbdoKeeps \in BOOLEAN
  /\ iteratorDeep \in inputs.deep
  /\ storeFaulty \in inputs.faulty
  /\ patchBudget = patchFaults
  /\ deviceBudget = deviceFaults

Boot(wrap, maxCmds, patchFaults, deviceFaults, inputs) ==
  BootAt(wrap, maxCmds, patchFaults, deviceFaults, inputs, {NoWait})

\* A run in which up to MaxPatchFaults write-backs and up to MaxDeviceFaults
\* device requests fail.
PullInit == Boot(ClockWrap, FaultyCmds, MaxPatchFaults, MaxDeviceFaults, ById)

\* A run with more commands than one cycle takes, in which every write-back
\* and every device request goes through.
BatchInit == Boot(ClockWrap, NumCmds, 0, 0, ById)

PullNext == Setup \/ SessionChange \/ Loop \/ ExecStep

PullSpec == PullInit /\ [][PullNext]_vars

BatchSpec == BatchInit /\ [][PullNext]_vars

\* A run with one command of any type, in which every write-back goes
\* through.
IntentInit ==
  Boot(ClockWrap, 1, 0, MaxDeviceFaults,
       [types |-> Intents, payloads |-> {Absent, DefaultPayload}, deep |-> {FALSE},
        faulty |-> {FALSE}])

\* A run with one command of any payload, in which every write-back and every
\* device request goes through.
PayloadInit ==
  Boot(ClockWrap, 1, 0, 0,
       [types |-> {"getState", "setState"}, payloads |-> Payloads, deep |-> BOOLEAN,
        faulty |-> {FALSE}])

PayloadSpec == PayloadInit /\ [][PullNext]_vars

\* A run with up to three commands in which the store may answer a query
\* with a malformed response, and every write-back and every device request
\* goes through.
QueryInit ==
  Boot(ClockWrap, 3, 0, 0,
       [types |-> {}, payloads |-> {DefaultPayload}, deep |-> {FALSE},
        faulty |-> {TRUE}])

QuerySpec == QueryInit /\ [][PullNext]_vars

\* ------------------------------------------------------------ push: engine

\* The payload object of the messages that have one.
MessagePayload ==
  JObject(<<Member("on", JScalar("bool", "true")), Member("bri", JScalar("number", "128"))>>)

\* A delivered message: parses says whether the body is JSON; action is the
\* optional action field, payload the optional payload object.
Messages ==
  { [parses |-> FALSE, action |-> Absent, payload |-> Absent],
    [parses |-> TRUE,  action |-> Absent, payload |-> Some(MessagePayload)],
    [parses |-> TRUE,  action |-> Some("getState"), payload |-> Some(MessagePayload)],
    [parses |-> TRUE,  action |-> Some("setConfig"), payload |-> Some(MessagePayload)] }

\* Messages with any action, with and without payload.
AllMessages ==
  Messages \cup
    { [parses |-> TRUE, action |-> a, payload |-> p] :
        a \in {Absent} \cup {Some(i) : i \in Intents},
        p \in {Absent, Some(MessagePayload)} }

\* processCommand, line 337: doc["action"] | "setState".
ActionOf(m) == IF m.action = Absent THEN "setState" ELSE m.action[1]

\* A mapper that reads the device state when it does not know the action.
DefaultGet(action, body) ==
  IF action = "getInfo"
    THEN [method |-> "GET", endpoint |-> "/json/info", body |-> EmptyString]
  ELSE IF action \in {"setState", "applyJson"}
    THEN [method |-> "POST", endpoint |-> "/json/state", body |-> body]
  ELSE IF action \in {"setConfig", "applyConfig"}
    THEN [method |-> "POST", endpoint |-> "/json/cfg", body |-> body]
  ELSE [method |-> "GET", endpoint |-> "/json/state", body |-> EmptyString]

\* processCommand, lines 343-364: endpoint, method and body by action; body
\* is what serializeJson(cmdPayload, body) yields.
MapIntentPush(action, body) ==
  IF action = "getState"
    THEN [method |-> "GET", endpoint |-> "/json/state", body |-> EmptyString]
  ELSE IF action = "getInfo"
    THEN [method |-> "GET", endpoint |-> "/json/info", body |-> EmptyString]
  ELSE IF action \in {"setState", "applyJson"}
    THEN [method |-> "POST", endpoint |-> "/json/state", body |-> body]
  ELSE IF action \in {"setConfig", "applyConfig"}
    THEN [method |-> "POST", endpoint |-> "/json/cfg", body |-> body]
  ELSE [method |-> "POST", endpoint |-> "/json/state", body |-> body]

WLED_IP == <<"192.168.50.200">>

ParseErrorJson == [error |-> <<"JSON", "parse", "error">>]

ErrorJson(response, action) == [error |-> response, action |-> action]

RawJson(response) == [raw |-> response]

\* A publishStatus that publishes without asking mqttClient.connected().
PublishStatusUnguarded(body, connected) ==
  <<[op |-> "publishStatus", body |-> body, connected |-> connected],
    [op |-> "publish", body |-> body]>>

\* A publishStatus that never publishes.
SilentStatus(body, connected) ==
  <<[op |-> "publishStatus", body |-> body, connected |-> connected]>>

\* publishStatus(body): the call, with what mqttClient.connected() returns
\* in it, and the publish on the status topic it
\* makes when mqttClient.connected().
PublishStatus(body, connected) ==
  IF connected
    THEN <<[op |-> "publishStatus", body |-> body, connected |-> connected],
           [op |-> "publish", body |-> body]>>
    ELSE <<[op |-> "publishStatus", body |-> body, connected |-> connected]>>

\* processCommand(m).  ans is the device's answer; connected is what
\* mqttClient.connected() returns when the outcome is reported.
ProcessCommand(m, ans, connected) ==
  IF ~m.parses
    THEN /\ calls' = PublishStatus(ParseErrorJson, connected)
         /\ outcome' = "failed"
         /\ handled' = [id |-> 0, intent |-> "", payload |-> Absent, ans |-> NoAnswer]
         /\ CountOutcome(TRUE)
         /\ UNCHANGED deviceBudget
    ELSE LET action == ActionOf(m)
             req == MapIntentPush(action, SerializeJson(m.payload))
             response == MakeWledRequest(req.method, ans)
         IN  /\ DeviceFails(ans) <= deviceBudget
             /\ deviceBudget' = deviceBudget - DeviceFails(ans)
             /\ handled' = [id |-> 0, intent |-> action, payload |-> m.payload,
                            ans |-> ans]
             /\ IF StartsWithError(response)
                  THEN /\ calls' = <<DeviceCall(0, WLED_IP, req)>>
                                   \o PublishStatus(ErrorJson(response, action), connected)
                       /\ outcome' = "failed"
                       /\ CountOutcome(TRUE)
                  ELSE /\ calls' = <<DeviceCall(0, WLED_IP, req)>>
                                   \o PublishStatus(RawJson(response), connected)
                       /\ outcome' = "completed"
                       /\ CountOutcome(FALSE)

\* ------------------------------------------------------------ push: session

MQTT_TOPIC_COMMAND == "lumina/DEVICE_ID/command"

\* connectMQTT, line 291: the online status.
OnlineJson == [online |-> TRUE, bridge |-> "esp32-mqtt"]

ConnectCall == [op |-> "connect"]

SubscribeCall(topic) == [op |-> "subscribe", topic |-> topic]

\* A connectMQTT that announces the bridge and does not subscribe.
AnnounceOnly(connected) == PublishStatus(OnlineJson, connected)

\* connectMQTT, lines 279-291: what follows a successful connect, with what
\* mqttClient.connected() returns in publishStatus.
OnConnected(connected) ==
  <<SubscribeCall(MQTT_TOPIC_COMMAND)>> \o PublishStatus(OnlineJson, connected)

\* connectMQTT: ok says whether mqttClient.connect succeeds.  On success it
\* subscribes to the command topic and publishes the online status.
ConnectMQTT(ok, now) ==
  /\ mqttConnected' = ok
  /\ link' = ok
  /\ sessionCalls' = IF ok THEN <<ConnectCall>> \o OnConnected(TRUE)
                     ELSE <<ConnectCall>>
  /\ subscribed' = \E i \in 1..Len(sessionCalls') : sessionCalls'[i].op = "subscribe"
  /\ attemptAt' = now
  /\ attemptFailed' = ~ok
  /\ gap' = IF attemptFailed THEN Elapsed(now, attemptAt) ELSE -1

\* What WiFi.status() == WL_CONNECTED gives at a poll of setupWiFi.
WifiUp(w) == w.upAfter <= w.attempts

\* A wait for WiFi without a window.
WaitUntilConnected(connected, attempts) == ~connected

\* setupWiFi, line 204: the condition of the while loop.
WifiWaitGoesOn(connected, attempts) == ~connected /\ attempts < WIFI_ATTEMPTS

\* setupWiFi, lines 204-217: one test of the while loop; the loop goes on
\* with a delay of WIFI_POLL_MS, or is left: with WiFi connected setupWiFi
\* returns, otherwise it goes on to WiFiManager.
SetupWiFiStep ==
  /\ build = "push"
  /\ pc = "setup"
  /\ wait.phase = "wifi"
  /\ wait.attempts <= WIFI_ATTEMPTS + MaxOverrun
  /\ wait' = IF WifiWaitGoesOn(WifiUp(wait), wait.attempts)
               THEN [wait EXCEPT !.attempts = @ + 1, !.elapsed = @ + WIFI_POLL_MS]
             ELSE IF WifiUp(wait) THEN [wait EXCEPT !.phase = "done"]
             ELSE [wait EXCEPT !.phase = "portal"]
  /\ UNCHANGED <<build, clock, clockWrap, ticks, pc, blinkVars, handlerVars, pullVars,
                 pushVars>>

\* setupWiFi, lines 224-246: WiFiManager::autoConnect with a portal timeout of
\* PORTAL_TIMEOUT_MS; it connects, or times out and the board restarts.
PortalStep ==
  /\ build = "push"
  /\ pc = "setup"
  /\ wait.phase = "portal"
  /\ \/ \E ms \in {WIFI_POLL_MS, PORTAL_TIMEOUT_MS} :
          wait' = [wait EXCEPT !.phase = "done", !.elapsed = @ + ms]
     \/ wait' = [wait EXCEPT !.phase = "restart", !.elapsed = @ + PORTAL_TIMEOUT_MS]
  /\ UNCHANGED <<build, clock, clockWrap, ticks, pc, blinkVars, handlerVars, pullVars,
                 pushVars>>

\* Time (ms since boot) at which setupWiFi is entered: the start-up delay and
\* blinks.
PushBootMs == 2004

\* Times (ms since boot) at which setupMQTT makes its connect attempt when
\* setup() is taken as one step: WiFi is up at the first or at the fifth
\* poll.
SetupAttemptMs == {PushBootMs + WIFI_POLL_MS, PushBootMs + 5 * WIFI_POLL_MS}

\* setup() of the push build: setupWiFi returns with WiFi connected (it
\* restarts the board otherwise), setupMQTT makes one connect attempt, and
\* one second later loop() is entered.
PushSetup ==
  /\ build = "push"
  /\ pc = "setup"
  /\ pc' = "loop"
  /\ wifiConnected' = TRUE
  /\ wait.phase \in {"none", "done"}
  /\ \E up \in BOOLEAN,
        t \in (IF wait.phase = "none" THEN SetupAttemptMs
               ELSE {PushBootMs + wait.elapsed}) :
       /\ brokerUp' = up
       /\ ConnectMQTT(up, Units(t) % clockWrap)
       /\ clock' = Units(t + 1000) % clockWrap
  /\ UNCHANGED <<build, wait, clockWrap, ticks, blinkVars, handlerVars, pullVars,
                 lastReconnectAttempt, downSeen, lastStatusPublish, msgBudget, inbox,
                 tick, jumped>>

\* The broker (or the network path to it) goes away: an open session is lost.
BrokerDown ==
  /\ build = "push"
  /\ pc = "loop"
  /\ brokerUp
  /\ brokerUp' = FALSE
  /\ link' = FALSE
  /\ subscribed' = FALSE
  /\ UNCHANGED <<build, wait, clock, clockWrap, ticks, pc, blinkVars, handlerVars,
                 pullVars, wifiConnected, mqttConnected, sessionCalls,
                 lastStatusPublish,
                 msgBudget, inbox, tick, attemptVars, jumped>>

\* The broker is reachable again.
BrokerUp ==
  /\ build = "push"
  /\ pc = "loop"
  /\ ~brokerUp
  /\ brokerUp' = TRUE
  /\ UNCHANGED <<build, wait, clock, clockWrap, ticks, pc, blinkVars, handlerVars,
                 pullVars, wifiConnected, sessionVars, lastStatusPublish,
                 msgBudget, inbox, tick, attemptVars, jumped>>

\* ------------------------------------------------------------ push: loop

\* statusBlink of the push build, entered at time now.
PushStatusBlink(now) ==
  IF Elapsed(now, lastBlinkTime) >= Units(BLINK_INTERVAL_MS)
    THEN /\ lastBlinkTime' = now
         /\ blinks' = IF mqttConnected /\ wifiConnected THEN 1
                      ELSE IF wifiConnected THEN 2 ELSE 3
    ELSE UNCHANGED blinkVars

\* The comparison in signed arithmetic.
ReconnectDueSigned(now) == now - lastReconnectAttempt > Units(RECONNECT_INTERVAL_MS)

\* loop(), line 152: now - lastReconnectAttempt > 5000.
ReconnectDue(now) ==
  Elapsed(now, lastReconnectAttempt) > Units(RECONNECT_INTERVAL_MS)

\* loop(), lines 163-168: the periodic publish of the device state, with the
\* session connected or not after the MQTT part of the iteration.  The fetch
\* of the device state may fail, and then nothing is published.
PeriodicPublish(now, connected, delivered) ==
  IF /\ STATUS_PUBLISH_INTERVAL_MS > 0
     /\ connected
     /\ Elapsed(now, lastStatusPublish) > Units(STATUS_PUBLISH_INTERVAL_MS)
    THEN /\ lastStatusPublish' = now
         /\ \E p \in {"fetch failed", "published"} :
              tick' = [down |-> ~link, first |-> ~link /\ ~downSeen,
                       attempted |-> ~link /\ ReconnectDue(now),
                       looped |-> link, delivered |-> delivered, published |-> p]
    ELSE /\ UNCHANGED lastStatusPublish
         /\ tick' = [down |-> ~link, first |-> ~link /\ ~downSeen,
                     attempted |-> ~link /\ ReconnectDue(now),
                     looped |-> link, delivered |-> delivered, published |-> "none"]

\* loop(), lines 150-157: the session is down.
Reconnect(now) ==
  /\ ~link
  /\ IF ReconnectDue(now)
       THEN /\ ConnectMQTT(brokerUp, now)
            /\ lastReconnectAttempt' = IF brokerUp THEN 0 ELSE now
            /\ downSeen' = ~brokerUp
            /\ PeriodicPublish(now, brokerUp, FALSE)
       ELSE /\ downSeen' = TRUE
            /\ UNCHANGED <<sessionVars, lastReconnectAttempt, attemptAt,
                           attemptFailed, gap>>
            /\ PeriodicPublish(now, FALSE, FALSE)
  /\ UNCHANGED <<handlerVars, brokerUp, msgBudget>>

\* loop(), lines 158-160: the session is up and mqttClient.loop() runs; it
\* delivers at most one message to mqttCallback.  The session may be lost
\* while processCommand waits for the device.
Receive(now) ==
  /\ link
  /\ UNCHANGED attemptVars
  /\ \/ /\ UNCHANGED <<handlerVars, brokerUp, sessionVars, msgBudget>>
        /\ PeriodicPublish(now, TRUE, FALSE)
     \/ /\ msgBudget > 0
        /\ msgBudget' = msgBudget - 1
        /\ \E m \in inbox, ans \in DeviceAnswers, lost \in BOOLEAN :
             /\ lost => m.parses
             /\ ProcessCommand(m, ans, ~lost)
             /\ finished' = finished + 1
             /\ brokerUp' = (brokerUp /\ ~lost)
             /\ link' = ~lost
             /\ subscribed' = (subscribed /\ ~lost)
             /\ UNCHANGED <<mqttConnected, sessionCalls>>
             /\ PeriodicPublish(now, ~lost, TRUE)

\* loop() of the push build entered d units after it was last entered.
PushLoopBody(d) ==
  /\ build = "push"
  /\ pc = "loop"
  /\ clock' = Advance(clock, d)
  /\ PushStatusBlink(clock')
  /\ Reconnect(clock') \/ Receive(clock')
  /\ UNCHANGED <<build, wait, clockWrap, pc, pullVars, wifiConnected, inbox, jumped>>

\* Elapsed times between two entries of loop().
PushDelays ==
  {Units(16), Units(RECONNECT_INTERVAL_MS + 8), Units(STATUS_PUBLISH_INTERVAL_MS + 8)}

PushLoop ==
  /\ ticks < MaxTicks
  /\ ticks' = ticks + 1
  /\ \E d \in PushDelays : PushLoopBody(d)

\* A long stretch of loop() iterations in which the session stays up and no
\* message arrives: the heartbeat and the periodic publish have just run, and
\* millis() is 16 ms from wrapping around.
LongRun ==
  /\ build = "push"
  /\ pc = "loop"
  /\ link
  /\ ~jumped
  /\ jumped' = TRUE
  /\ clock' = clockWrap - Units(16)
  /\ lastBlinkTime' = clock'
  /\ blinks' = 1
  /\ lastStatusPublish' = clock'
  /\ tick' = [down |-> FALSE, first |-> FALSE, attempted |-> FALSE,
              looped |-> TRUE, delivered |-> FALSE, published |-> "published"]
  /\ UNCHANGED <<build, wait, clockWrap, ticks, pc, handlerVars, pullVars, wifiConnected,
                 brokerUp, sessionVars, msgBudget, inbox, attemptVars>>

\* ------------------------------------------------------------ push: spec

PushBootAt(wrap, messages, published, waits) ==
  /\ build = "push"
  /\ wait \in waits
  /\ clockWrap = wrap
  /\ Globals
  /\ PullIdle
  /\ remote = [c \in Cmds |-> NoDoc]
  /\ fbdoKeeps = FALSE
  /\ iteratorDeep = FALSE
  /\ storeFaulty = FALSE
  /\ patchBudget = 0
  /\ PushIdle
  /\ msgBudget = messages
  /\ inbox = published
  /\ deviceBudget = MaxDeviceFaults

PushBoot(wrap, messages, published) == PushBootAt(wrap, messages, published, {NoWait})

PushInit == PushBoot(ClockWrap, MaxMessages, Messages)

PushNext == PushSetup \/ BrokerDown \/ BrokerUp \/ PushLoop \/ LongRun

PushSpec == PushInit /\ [][PushNext]_vars

\* ------------------------------------------------------------ either build

Init == PullInit \/ PushInit

Next == PullNext \/ PushNext

Spec == Init /\ [][Next]_vars

\* ------------------------------------------------------------ fair runs

\* Elapsed times between two entries of loop() in the runs on the narrow clock.
FairDelays == {Units(8192)}

FairPushDelays == {Units(4096), Units(8192)}

FairLoop == UNCHANGED ticks /\ \E d \in FairDelays : LoopBody(d)

FairPushLoop == UNCHANGED ticks /\ \E d \in FairPushDelays : PushLoopBody(d)

\* Elapsed times between two entries of loop() in the runs that follow the
\* poll decisions around the clock: about half the poll interval, and just
\* over it.
CadenceDelays == {Units(1024), Units(2048)}

CadenceLoop == UNCHANGED ticks /\ \E d \in CadenceDelays : LoopBody(d)

CadenceInit == Boot(NarrowWrap, 1, 0, 0, ById)

CadenceNext == Setup \/ SessionChange \/ CadenceLoop \/ ExecStep

\* The pull build on the narrow clock, with loop() entered about once per
\* poll interval.
CadenceSpec == CadenceInit /\ [][CadenceNext]_vars

FairPullInit == Boot(NarrowWrap, FaultyCmds, MaxPatchFaults, MaxDeviceFaults, ById)

FairPullNext == Setup \/ SessionChange \/ FairLoop \/ ExecStep

\* setup() returns, loop() is called again and again, and a batch is drained.
FairPullSpec ==
  /\ FairPullInit
  /\ [][FairPullNext]_vars
  /\ WF_vars(Setup) /\ WF_vars(FairLoop) /\ WF_vars(ExecStep)

\* No message arrives in these runs.
FairPushInit == PushBoot(NarrowWrap, 0, {})

FairPushNext == PushSetup \/ BrokerDown \/ BrokerUp \/ FairPushLoop

FairPushSpec ==
  /\ FairPushInit
  /\ [][FairPushNext]_vars
  /\ WF_vars(PushSetup) /\ WF_vars(FairPushLoop)

\* A run of the push build in which the broker stays as it was at setup and
\* delivers one message, of any action.
PushInputInit == PushBoot(NarrowWrap, 1, AllMessages)

PushInputNext == PushSetup \/ FairPushLoop

PushInputSpec == PushInputInit /\ [][PushInputNext]_vars

\* A run of either build with one command of any intent.
HandlerInit == IntentInit \/ PushInputInit

HandlerNext == PullNext \/ PushInputNext

HandlerSpec == HandlerInit /\ [][HandlerNext]_vars

\* Batches of several commands (pull) and every message (push).
DrainInit == BatchInit \/ PushInputInit

DrainSpec == DrainInit /\ [][HandlerNext]_vars

\* Several commands in one run: batches (pull), two messages (push).
MapInit == BatchInit \/ PushBoot(NarrowWrap, 2, Messages)

MapSpec == MapInit /\ [][HandlerNext]_vars

\* Runs in which the wait loops of setup() are followed step by step: WiFi
\* comes up at the first poll, at a later one, at the last one of the window
\* or not at all (push); Firebase is ready at once, later, at the end of the
\* window or not at all (pull).
WifiUpAfter == {0, 1, WIFI_ATTEMPTS - 1, WIFI_ATTEMPTS, WIFI_ATTEMPTS + MaxOverrun + 1}

FirebaseReadyAfter ==
  {0, FIREBASE_POLL_MS, FIREBASE_WAIT_MS - FIREBASE_POLL_MS, FIREBASE_WAIT_MS,
   FIREBASE_WAIT_MS + (MaxOverrun + 1) * FIREBASE_POLL_MS}

WaitInit ==
  \/ BootAt(NarrowWrap, 0, 0, 0, ById,
            {Waiting("firebase", 0, ms) : ms \in FirebaseReadyAfter})
  \/ PushBootAt(NarrowWrap, 0, {}, {Waiting("wifi", n, 0) : n \in WifiUpAfter})

WaitNext ==
  \/ FirebaseWaitStep \/ Setup
  \/ SetupWiFiStep \/ PortalStep \/ PushSetup
  \/ BrokerDown \/ BrokerUp \/ FairPushLoop

WaitSpec ==
  /\ WaitInit
  /\ [][WaitNext]_vars
  /\ WF_vars(FirebaseWaitStep) /\ WF_vars(SetupWiFiStep) /\ WF_vars(PortalStep)

\* ------------------------------------------------------------ properties

\* The status values the bridge may have written to one document, in order.
StatusSequences ==
  {<<>>, <<"executing">>} \cup {<<t>> : t \in Terminal}
    \cup {<<"executing", t>> : t \in Terminal}

\* C1, as stated: the status values the bridge writes to a command's document,
\* after the 'pending' it was created with, are a prefix of executing, then
\* one of completed/failed.
C1_StatusPrefix ==
  \A c \in Cmds :
    writes[c] \in {<<>>, <<"executing">>} \cup {<<"executing", t>> : t \in Terminal}

\* C1, amended: the status values the bridge writes to a command's document
\* are, in this order, at most one 'executing' and at most one of
\* completed/failed ('executing' is missing when the command has no target or
\* its write-back failed); the document holds the last value written, and
\* nothing is written after completed or failed.
C1_StatusMonotone ==
  \A c \in Cmds :
    /\ writes[c] \in StatusSequences
    /\ remote[c].status =
         IF writes[c] = <<>> THEN "pending" ELSE writes[c][Len(writes[c])]

\* A command with a target whose 'executing' write-back failed and whose
\* terminal write-back went through.
C1_Witness ==
  \E c \in Cmds :
    /\ ~MissingTarget(remote[c])
    /\ requests[c] = 1
    /\ writes[c] = <<"completed">>
    /\ remote[c].status = "completed"

\* C2: a command without target (controllerIp empty or absent) is failed with
\* the error "No controller IP specified" in one write-back: 'executing' is
\* never written for it and no device request is issued for it.
C2_MissingTarget ==
  /\ \A c \in Cmds :
       (remote[c].exists /\ ControllerIp(remote[c]) = EmptyString) =>
         /\ requests[c] = 0
         /\ writes[c] \in {<<>>, <<"failed">>}
         /\ writes[c] = <<"failed">> =>
              /\ remote[c].status = "failed"
              /\ remote[c].error = Some(NoControllerIp)
  /\ (calls # <<>> /\ ControllerIp(remote[calls[1].id]) = EmptyString) =>
       /\ outcome = "failed"
       /\ calls = <<PatchCall(calls[1].id,
                      UpdateContent("failed", NoControllerIp, FALSE, EmptyString))>>

\* A command whose controllerIp is the empty string has been failed remotely.
C2_Witness ==
  \E c \in Cmds :
    /\ remote[c].controllerIp = Some(EmptyString)
    /\ terminalized[c]
    /\ writes[c] = <<"failed">>
    /\ calls # <<>> /\ calls[1].id = c

\* The calls of the last handled command that report a terminal status.
TerminalPatches ==
  SelectSeq(calls, LAMBDA k : k.op = "patch" /\ k.content.status \in Terminal)

StatusCalls == SelectSeq(calls, LAMBDA k : k.op = "publishStatus")

Publishes == SelectSeq(calls, LAMBDA k : k.op = "publish")

\* C3, as stated: a handled command has one terminal outcome, reported by
\* exactly one terminal patchDocument (pull) or exactly one publish on the
\* status topic (push).
C3_OnePublish ==
  outcome # "none" =>
    /\ outcome \in Terminal
    /\ build = "pull" => Len(TerminalPatches) = 1
    /\ build = "push" => Len(Publishes) = 1

\* C3, amended: a handled command has one terminal outcome, reported by
\* exactly one Status Reporter call: one terminal patchDocument carrying that
\* outcome (pull), or one publishStatus call (push), which publishes once on
\* the status topic when the session is connected and not at all when it is
\* not.
C3_OneReport ==
  outcome # "none" =>
    /\ outcome \in Terminal
    /\ build = "pull" =>
         /\ Len(TerminalPatches) = 1
         /\ TerminalPatches[1].content.status = outcome
         /\ calls[Len(calls)] = TerminalPatches[1]
         /\ Len(StatusCalls) = 0
    /\ build = "push" =>
         /\ Len(StatusCalls) = 1
         /\ Len(Publishes) = (IF StatusCalls[1].connected THEN 1 ELSE 0)
         /\ calls[Len(calls)].body = StatusCalls[1].body
         /\ ("error" \in DOMAIN StatusCalls[1].body) <=> (outcome = "failed")

\* The session was lost while the device was asked: the outcome of the command
\* was handed to publishStatus and nothing was published.
C3_Witness ==
  /\ build = "push"
  /\ outcome = "completed"
  /\ Len(StatusCalls) = 1
  /\ Len(Publishes) = 0

\* C4: no device request is issued for a command the bridge has already
\* terminalized in this run.
C4_NoRetry == \A c \in Cmds : ~retried[c]

C6_ReadinessGate ==
  [][ticks' # ticks =>
       /\ tickReady' = sessionReady
       /\ ~sessionReady =>
            /\ tickDecision' \in {"idle", "skipped"}
            /\ pc' = "loop"
            /\ UNCHANGED <<resp, idx, executed, remote, requests, calls>>
       /\ tickDecision' = "polled" => sessionReady /\ firebaseReady]_vars

\* A due iteration was entered with the flag of setup set and the session not
\* ready, and skipped the poll.
C6_Witness ==
  /\ firebaseReady
  /\ ~tickReady
  /\ tickDecision = "skipped"
  /\ pc = "loop"

\* C7: whenever the remote session becomes ready and stays ready, loop()
\* issues a poll again and again, whatever the outcome of setup was.
C7_PullRecovery == <>[]sessionReady => []<>(tickDecision = "polled")

\* C8: the session comes up only by a connect attempt that succeeds with the
\* broker reachable, and goes down only when the session is lost; and
\* whenever the broker becomes reachable and stays reachable, the bridge
\* reconnects and from then on every loop() iteration calls mqttClient.loop().
C8_PushRecovery ==
  /\ [][/\ (~link /\ link') =>
             /\ brokerUp'
             /\ attemptAt' = (IF pc = "setup" THEN attemptAt' ELSE clock')
             /\ ~attemptFailed' /\ mqttConnected' /\ subscribed'
        /\ (link /\ ~link') => (brokerUp /\ ~brokerUp')]_vars
  /\ (<>[]brokerUp => <>[](link /\ tick.looped))

\* The session is up again after a failed connect attempt and mqttClient.loop()
\* is being called.
C8_Witness ==
  /\ link /\ subscribed
  /\ tick.looped
  /\ gap >= 0
  /\ ~attemptFailed

\* C9: a connect attempt that follows a failed one is made no sooner than
\* RECONNECT_INTERVAL_MS after it.
C9_FixedBackoff == gap = -1 \/ gap >= Units(RECONNECT_INTERVAL_MS)

\* C10: the first loop() iteration that finds the session down makes a
\* connect attempt.
C10_ImmediateFirstAttempt == tick.first => tick.attempted

\* The device requests of the last handled command.
DeviceOps == SelectSeq(calls, LAMBDA k : k.op = "device")

\* The plain JSON of the payload of the last handled command, as a request
\* body: of the payload map of the document (pull, {} when there is none), of
\* the payload object of the message (push, null when there is none).
PlainBody ==
  IF build = "pull"
    THEN IF handled.payload = Absent THEN <<JObject(<<>>)>>
         ELSE <<PlainJson(TypedMap(handled.payload[1]))>>
    ELSE IF handled.payload = Absent THEN <<JScalar("null", "null")>>
         ELSE handled.payload

ConfigIntents ==
  {"applyConfig", "setConfig", "configureSyncReceiver", "configureSyncSender"}

\* The intents of the mapping table.
TableIntents ==
  {"getState", "getInfo", "setState", "applyJson", "renameSegment", "applyToSegments"}
    \cup ConfigIntents

\* C11: in both builds, a command whose intent is applyConfig, setConfig,
\* configureSyncReceiver or configureSyncSender is sent to the device as
\* POST /json/cfg with the plain JSON of its payload as body.
C11_ConfigIntents ==
  (Len(DeviceOps) > 0 /\ handled.intent \in ConfigIntents) =>
    DeviceOps[1].req = [method |-> "POST", endpoint |-> "/json/cfg", body |-> PlainBody]

\* C12: in both builds, getState is sent as GET /json/state and getInfo as
\* GET /json/info, without a body, whatever the payload of the command is.
C12_ReadIntents ==
  /\ (Len(DeviceOps) > 0 /\ handled.intent = "getState") =>
       DeviceOps[1].req = [method |-> "GET", endpoint |-> "/json/state", body |-> EmptyString]
  /\ (Len(DeviceOps) > 0 /\ handled.intent = "getInfo") =>
       DeviceOps[1].req = [method |-> "GET", endpoint |-> "/json/info", body |-> EmptyString]

\* A getState command that carries a payload was sent to the device.
C12_Witness ==
  /\ build = "pull"
  /\ handled.intent = "getState"
  /\ handled.payload # Absent
  /\ Len(DeviceOps) = 1
  /\ DeviceOps[1].req.method = "GET"

\* C13: in both builds, a command whose intent is not in the table (the empty
\* string included) is sent as POST /json/state with the plain JSON of its
\* payload as body and is not failed by the mapper; no request has a method
\* other than GET or POST.
C13_DefaultMapping ==
  /\ \A i \in 1..Len(DeviceOps) : DeviceOps[i].req.method \in {"GET", "POST"}
  /\ (handled.id # 0 /\ ~MissingTarget(remote[handled.id])) => Len(DeviceOps) = 1
  /\ (build = "push" /\ outcome # "none" /\ handled.ans # NoAnswer) => Len(DeviceOps) = 1
  /\ (Len(DeviceOps) > 0 /\ handled.intent \notin TableIntents) =>
       DeviceOps[1].req = [method |-> "POST", endpoint |-> "/json/state", body |-> PlainBody]

\* A message whose action is not in the table was sent to the device.
C13_Witness ==
  /\ build = "push"
  /\ handled.intent = "fade"
  /\ handled.payload # Absent
  /\ Len(DeviceOps) = 1
  /\ outcome = "completed"

\* The answer of the device to the last handled command is a 2xx response.
Answered2xx ==
  Len(DeviceOps) > 0 /\ handled.ans.code >= 200 /\ handled.ans.code <= 299

\* The device or the transport failed the request of the last handled command.
DeviceFailed ==
  Len(DeviceOps) > 0 /\ (handled.ans.code < 200 \/ handled.ans.code > 299)

\* The text s holds the word w.
Contains(s, w) == \E i \in 1..Len(s) : s[i] = w

\* The error text reported for the last handled command.
ReportedError ==
  IF build = "pull" THEN calls[Len(calls)].content.error
  ELSE StatusCalls[1].body.error

\* C14: every 2xx response of the device terminalizes the command as
\* completed, with the response as result: written back (pull) or published
\* unchanged (push), whatever the body is.
C14_SuccessCompletes ==
  Answered2xx =>
    /\ outcome = "completed"
    /\ build = "pull" =>
         /\ "result" \in DOMAIN calls[Len(calls)].content
         /\ calls[Len(calls)].content.result = handled.ans.body
    /\ build = "push" => StatusCalls[1].body = RawJson(handled.ans.body)

\* C15: every failure of the device request (a status outside 2xx, a timeout,
\* a refused connection) terminalizes the command as failed, never as
\* completed, and the reported error text holds the HTTP status code or the
\* marker of the transport error.
C15_FailureFails ==
  DeviceFailed =>
    /\ outcome = "failed"
    /\ IF build = "pull"
         THEN "error" \in DOMAIN calls[Len(calls)].content
         ELSE "error" \in DOMAIN StatusCalls[1].body
    /\ IF handled.ans.code > 0
         THEN Contains(ReportedError, ToString(handled.ans.code))
         ELSE Contains(ReportedError, "transport")

\* The connection to the device failed and the command was written back as
\* failed with the transport error.
C15_Witness ==
  /\ build = "pull"
  /\ DeviceFailed
  /\ handled.ans.code = -1
  /\ outcome = "failed"
  /\ calls[Len(calls)].content.error = <<ERROR_PREFIX>> \o ErrorToString(-1)

\* The device answered 500 and the failure was published.
C15_WitnessPush ==
  /\ build = "push"
  /\ DeviceFailed
  /\ handled.ans.code = 500
  /\ Len(Publishes) = 1
  /\ Publishes[1].body.error = <<ERROR_PREFIX, "HTTP", "500">>

\* The write-backs of the last handled command.
Patches == SelectSeq(calls, LAMBDA k : k.op = "patch")

\* C16: the field mask of every status write-back names only the fields the
\* write carries (status, and completedAt, error, result only when the write
\* has a value for them), so that no other field of the document is touched.
C16_MaskNamesCarried ==
  \A i \in 1..Len(Patches) : Patches[i].mask = DOMAIN Patches[i].content

TerminalFields == {"completedAt", "error", "result"}

\* The positions of the terminal statuses among the statuses written to c.
TerminalWrites(c) == {i \in 1..Len(writes[c]) : writes[c][i] \in Terminal}

\* C17, as stated: completedAt is written exactly once, at the first terminal
\* transition of the command.
C17_StampedOnce ==
  \A c \in Cmds : terminalized[c] => remote[c].completedAt # Absent

\* What holds of the terminal fields in every state.
C17_Fields ==
  /\ \A c \in Cmds :
       /\ Cardinality(TerminalWrites(c)) <= 1
       /\ TerminalWrites(c) \subseteq {Len(writes[c])}
       /\ (remote[c].completedAt # Absent) <=> (TerminalWrites(c) # {})
       /\ (remote[c].error # Absent) => (remote[c].status = "failed")
       /\ (remote[c].result # Absent) => (remote[c].status = "completed")
  /\ \A i \in 1..Len(Patches) :
       LET content == Patches[i].content
       IN  /\ ("completedAt" \in DOMAIN content) <=> (content.status \in Terminal)
           /\ ("error" \in DOMAIN content) => (content.status = "failed")
           /\ ("result" \in DOMAIN content) => (content.status = "completed")

\* No step changes or clears a terminal field that has a value.
C17_Kept ==
  \A c \in Cmds : \A f \in TerminalFields :
    (remote[c][f] # Absent) => (remote'[c][f] = remote[c][f])

\* C17, amended: for every command, completedAt, error and result are each
\* written at most once over the whole run, all by the one terminal write-back
\* that goes through (none of them when that write-back fails); completedAt is
\* carried by the terminal write-backs only, error only together with status
\* failed and result only together with status completed; no later step
\* changes or clears a value already written.
C17_WriteOnce == []C17_Fields /\ [][C17_Kept]_vars

\* A command was written back as completed with its result and a later poll
\* found nothing pending.
C17_Witness ==
  \E c \in Cmds :
    /\ terminalized[c]
    /\ writes[c] = <<"executing", "completed">>
    /\ remote[c].completedAt # Absent
    /\ remote[c].result = Some(<<"{json}">>)
    /\ remote[c].error = Absent
    /\ pc = "loop"
    /\ tickDecision = "polled"
    /\ resp = <<>>

\* loop() of the pull build issues the query in this step.
PollStep == build = "pull" /\ clock' # clock /\ tickDecision' = "polled"

\* executeCommand runs in this step.
ExecuteStep == build = "pull" /\ executed' = executed + 1

\* A message is delivered to mqttCallback in this step.
DeliverStep == build = "push" /\ msgBudget' # msgBudget

\* What holds of the calls of the last handled command: at most one device
\* request, and after it the report of the terminal status.
C18_OneRequest ==
  /\ Len(DeviceOps) <= 1
  /\ Len(DeviceOps) = 1 =>
       /\ calls[Len(calls)].op \in {"patch", "publishStatus", "publish"}
       /\ build = "pull" => calls[Len(calls)].content.status \in Terminal
       /\ \A i \in 1..Len(calls) :
            calls[i].op = "device" =>
              \A j \in 1..Len(calls) :
                (calls[j].op = "patch" /\ calls[j].content.status \in Terminal)
                  => i < j

\* What holds of every step: a query is issued only when the response of the
\* one before is drained; the entries of a response are handled one per step,
\* in their order, each up to its terminal write-back; a step delivers one
\* message at most.
C18_InOrder ==
  /\ PollStep => (pc = "loop" /\ idx > Len(resp))
  /\ ExecuteStep =>
       /\ pc = "batch"
       /\ idx' = idx + 1
       /\ handled'.id = resp[idx]
       /\ calls'[Len(calls')].op = "patch"
       /\ calls'[Len(calls')].content.status \in Terminal
       /\ terminalized'[resp[idx]]
  /\ DeliverStep =>
       /\ msgBudget' = msgBudget - 1
       /\ outcome' \in Terminal
       /\ calls'[Len(calls')].op \in {"publishStatus", "publish"}
       /\ tick'.delivered

KnownTags == {"boolean", "integer", "double", "string", "array", "map"}

RECURSIVE WellTagged(_)
\* The typed value is built from values of the known tags only.
WellTagged(v) ==
  /\ v.tag \in KnownTags
  /\ \A i \in 1..Len(v.kids) : WellTagged(v.kids[i].val)

\* The payload map of the last handled command, as a typed value.
HandledPayload == TypedMap(handled.payload[1])

\* The last handled command is a state update with a payload map, and the
\* device was asked.
PayloadSent ==
  /\ build = "pull"
  /\ handled.intent = "setState"
  /\ handled.payload # Absent
  /\ Len(DeviceOps) = 1

\* The body of the request is a JSON object.
BodyMembers == DeviceOps[1].req.body[1].kids

\* C19: for every payload tree built from bool, integer, double, string, array
\* and map values, arrays of maps and maps in maps included, the body that
\* convertFirestorePayloadToJson makes of its wire encoding is the plain JSON
\* of the same tree, the type tags erased at every depth.
C19_RoundTrip ==
  (PayloadSent /\ WellTagged(HandledPayload)) =>
    DeviceOps[1].req.body = <<PlainJson(HandledPayload)>>

\* The fields of the payload whose tag the decoder does not know.
UnknownFields ==
  {i \in 1..Len(handled.payload[1]) : handled.payload[1][i].val.tag \notin KnownTags}

\* C20: a payload field whose wire node has no tag the decoder knows is left
\* out of the body, its sibling fields are decoded as they are without it,
\* and the command is executed against the device and not failed because of
\* the field.
C20_UnknownTag ==
  (PayloadSent /\ UnknownFields # {}) =>
    LET fields == handled.payload[1]
        others == SelectSeq(fields, LAMBDA m : m.val.tag \in KnownTags)
    IN  /\ \A i \in UnknownFields :
             \A j \in 1..Len(BodyMembers) : BodyMembers[j].key # fields[i].key
        /\ \A i \in 1..Len(fields) :
             fields[i].val.tag \in {"boolean", "integer", "double", "string"} =>
               \E j \in 1..Len(BodyMembers) :
                 BodyMembers[j] = Member(fields[i].key, PlainJson(fields[i].val))
        /\ Len(BodyMembers) = Len(others)
        /\ DeviceOps[1].req.method = "POST"
        /\ outcome = (IF DeviceFails(handled.ans) = 0 THEN "completed" ELSE "failed")
        /\ outcome = "failed" => ReportedError # EmptyString

\* A state update whose payload has a boolean field and a timestamp field was
\* sent to the device with the boolean field alone and completed.
C20_Witness ==
  /\ PayloadSent
  /\ handled.payload =
       Some(<<Member("on", Typed("boolean", "true")),
              Member("seg", Typed("timestamp", "2024-01-01T00:00:00Z"))>>)
  /\ DeviceOps[1].req.body = <<JObject(<<Member("on", JScalar("bool", "true"))>>)>>
  /\ outcome = "completed"

\* C21: when the query fails or its response is malformed, the cycle is
\* aborted: no command of that response is executed, no status is written,
\* and loop() goes on to the next cycle.
C21_QueryFault ==
  (build = "pull" /\ query \in {"failed", "malformed"}) =>
    /\ executed = 0
    /\ \A i \in 1..Len(resp) : (i < idx /\ resp[i] # 0) => writes[resp[i]] = <<>>

\* What holds of the last command handled by the pull build, whichever of
\* its write-backs failed: one patch for each updateCommandStatus call, the
\* device request made, the outcome that of the device request.
C22_OneAttempt ==
  (build = "pull" /\ handled.id # 0) =>
    /\ Len(Patches) = (IF handled.ans = NoAnswer THEN 1 ELSE 2)
    /\ handled.ans # NoAnswer =>
         /\ Len(DeviceOps) = 1
         /\ Patches[1].content.status = "executing"
         /\ outcome = (IF handled.ans.code = HTTP_CODE_OK
                          /\ ~StartsWithError(handled.ans.body)
                         THEN "completed" ELSE "failed")
    /\ Patches[Len(Patches)].content.status = outcome

\* Every executeCommand adds one to one counter, by its outcome.
C22_Counted ==
  ExecuteStep =>
    /\ commandsProcessed' =
         commandsProcessed + (IF outcome' = "completed" THEN 1 ELSE 0)
    /\ commandsFailed' = commandsFailed + (IF outcome' = "failed" THEN 1 ELSE 0)
    /\ outcome' \in Terminal

\* C22: a failed status write-back is only logged: every updateCommandStatus
\* call makes one patch attempt whatever its outcome, a failed 'executing'
\* write does not keep the device request from being made, and a failed
\* terminal write changes neither the outcome of the command nor the
\* counters.
C22_ReportFault == []C22_OneAttempt /\ [][C22_Counted]_vars

\* Both write-backs of a command failed; the device was asked, the command
\* completed and was counted.
C22_Witness ==
  \E c \in Cmds :
    /\ handled.id = c
    /\ writes[c] = <<>>
    /\ remote[c].status = "pending"
    /\ Len(DeviceOps) = 1
    /\ outcome = "completed"
    /\ commandsProcessed = 1
    /\ commandsFailed = 0

\* C23: every message the push build publishes on the status topic as the
\* outcome of a command is the raw response of the device when the command
\* succeeded, and on every failure an object with an error field and an
\* action field that names the intent of the command.
C23_StatusBody ==
  build = "push" =>
    \A i \in 1..Len(Publishes) :
      LET body == Publishes[i].body
      IN  IF outcome = "completed"
            THEN body = RawJson(handled.ans.body)
            ELSE /\ DOMAIN body = {"error", "action"}
                 /\ body.action = handled.intent

\* The request for an intent and a body, by the table of each build.
RequestFor(intent, body) ==
  LET cfg == IF build = "pull"
               THEN {"applyConfig", "configureSyncReceiver", "configureSyncSender"}
               ELSE {"applyConfig", "setConfig"}
  IN  IF intent = "getState"
        THEN [method |-> "GET", endpoint |-> "/json/state", body |-> EmptyString]
      ELSE IF intent = "getInfo"
        THEN [method |-> "GET", endpoint |-> "/json/info", body |-> EmptyString]
      ELSE IF intent \in cfg
        THEN [method |-> "POST", endpoint |-> "/json/cfg", body |-> body]
      ELSE [method |-> "POST", endpoint |-> "/json/state", body |-> body]

\* C24: the mapping is a function of the intent and the payload of the
\* command alone: in every state in which a command has been sent to the
\* device, whatever the counters, the connection flags, the timers and the
\* commands handled before it, its request is the one the table gives for
\* its intent and its payload.
C24_MapperPure ==
  Len(DeviceOps) > 0 => DeviceOps[1].req = RequestFor(handled.intent, PlainBody)

\* A state update was mapped after a getState command of the same batch and
\* after a command was counted.
C24_Witness ==
  /\ build = "pull"
  /\ executed >= 2
  /\ commandsProcessed >= 1
  /\ handled.intent = "setState"
  /\ terminalized[1]
  /\ remote[1].type = "getState"
  /\ Len(DeviceOps) = 1
  /\ DeviceOps[1].req.method = "POST"

\* The second message of a run was mapped.
C24_WitnessPush ==
  /\ build = "push"
  /\ commandsProcessed + commandsFailed = 2
  /\ Len(DeviceOps) = 1
  /\ handled.intent = "setConfig"

\* C25: the calls made for a command of the pull build that has a target are
\* these, in this order and with nothing between them: one write-back of
\* status 'executing', one request to the device at the target, one
\* write-back of the terminal status (completed or failed).
C25_StepOrder ==
  (build = "pull" /\ handled.id # 0 /\ ~MissingTarget(remote[handled.id])) =>
    /\ Len(calls) = 3
    /\ \A i \in 1..3 : calls[i].id = handled.id
    /\ calls[1].op = "patch"
    /\ calls[1].content = [status |-> "executing"]
    /\ calls[2].op = "device"
    /\ calls[2].ip = remote[handled.id].controllerIp[1]
    /\ calls[3].op = "patch"
    /\ calls[3].content.status \in Terminal
    /\ calls[3].content.status = outcome

\* A command with a target was handled; the device failed it and both
\* write-backs went through.
C25_Witness ==
  \E c \in Cmds :
    /\ build = "pull"
    /\ handled.id = c
    /\ remote[c].controllerIp = Some(DeviceIp)
    /\ handled.ans.code = 500
    /\ writes[c] = <<"executing", "failed">>
    /\ Len(calls) = 3

\* The entries of the response that loop has passed and that hold a document.
PassedEntries == {i \in 1..Len(resp) : i < idx /\ resp[i] # 0}

\* C26: in one cycle every document of the query response is passed to
\* executeCommand once, in the order of the response and under its own id,
\* although the write-backs of executeCommand go through the session object
\* (fbdo) the remaining entries are read from.
C26_EveryEntry ==
  (build = "pull" /\ query = "ok") =>
    /\ executed = Cardinality(PassedEntries)
    /\ \A i \in PassedEntries : terminalized[resp[i]]
    /\ executed > 0 => handled.id = resp[CHOOSE i \in PassedEntries :
                                            \A j \in PassedEntries : j <= i]

\* A wait loop of setup() stays within its window: setupWiFi polls WiFi at
\* most WIFI_ATTEMPTS times and WiFiManager gives up after its timeout;
\* setupFirebase waits at most FIREBASE_WAIT_MS.
C27_Windows ==
  /\ build = "push" =>
       /\ wait.attempts <= WIFI_ATTEMPTS
       /\ wait.elapsed <= WIFI_ATTEMPTS * WIFI_POLL_MS + PORTAL_TIMEOUT_MS
  /\ build = "pull" => wait.elapsed <= FIREBASE_WAIT_MS

\* An iteration of loop() of the push build makes a connect attempt only with
\* the session down, makes it at the time of the iteration, and returns to
\* loop() whether the attempt succeeds or fails.
C27_OneAttempt ==
  (build = "push" /\ pc = "loop" /\ clock' # clock) =>
    /\ pc' = "loop"
    /\ tick'.attempted => (~link /\ attemptAt' = clock' /\ link' = brokerUp)
    /\ ~tick'.attempted => UNCHANGED <<attemptAt, attemptFailed, mqttConnected>>

\* The wait loops of setup() have been left.
C27_SetupOver == wait.phase \in {"done", "restart"}

\* C27: no wait blocks for ever: the wait loops of setup() end within their
\* windows (WiFi: at most WIFI_ATTEMPTS polls; Firebase: at most
\* FIREBASE_WAIT_MS), and every iteration of loop() returns after at most one
\* connect attempt, whether the attempt succeeds or fails.
C27_BoundedWaits ==
  /\ []C27_Windows
  /\ [][C27_OneAttempt]_vars
  /\ <>C27_SetupOver

\* WiFi came up at the last poll of the window, and an iteration of loop()
\* has made a connect attempt that failed.
C27_Witness ==
  /\ build = "push"
  /\ wait.phase = "done"
  /\ wait.attempts = WIFI_ATTEMPTS
  /\ pc = "loop"
  /\ tick.attempted
  /\ attemptFailed

\* Firebase was not ready within the window and setup() went on without it.
C27_WitnessPull ==
  /\ build = "pull"
  /\ wait.phase = "done"
  /\ wait.elapsed = FIREBASE_WAIT_MS
  /\ pc = "loop"
  /\ ~firebaseReady


\* An iteration of loop() of the push build in which statusBlink signals: the
\* heartbeat interval has elapsed when the iteration is entered.
C28_Heartbeat ==
  /\ build = "push"
  /\ pc = "loop"
  /\ jumped' = jumped
  /\ clock' # clock
  /\ Elapsed(clock', lastBlinkTime) >= Units(BLINK_INTERVAL_MS)

\* C28: at every heartbeat of the push build the blink pattern reflects the
\* link state of that moment: one blink only when WiFi and the MQTT session
\* are both up, two blinks when WiFi is up and the session is down.
C28_BlinkReflectsLink ==
  [][C28_Heartbeat =>
       blinks' = IF wifiConnected /\ link THEN 1
                 ELSE IF wifiConnected THEN 2 ELSE 3]_vars

\* The last delivered message of the push build did not parse: processCommand
\* returned before it read an action or asked the device.
C29_NotParsed == build = "push" /\ outcome # "none" /\ handled.ans = NoAnswer

\* What a message that does not parse leaves behind: no device request, one
\* publishStatus with an error body, published once when the session is
\* connected, and the outcome failed.
C29_ErrorOnly ==
  C29_NotParsed =>
    /\ Len(DeviceOps) = 0
    /\ Len(StatusCalls) = 1
    /\ "error" \in DOMAIN StatusCalls[1].body
    /\ Len(Publishes) = (IF StatusCalls[1].connected THEN 1 ELSE 0)
    /\ outcome = "failed"

\* The counters over a delivery: a message that does not parse counts as one
\* failure; any other message, whatever was delivered before it, is taken to
\* the device and counted once.
C29_Delivery ==
  DeliverStep =>
    IF handled'.ans = NoAnswer
      THEN /\ commandsFailed' = commandsFailed + 1
           /\ commandsProcessed' = commandsProcessed
      ELSE /\ calls'[1] = DeviceCall(0, WLED_IP,
                                     RequestFor(handled'.intent,
                                                SerializeJson(handled'.payload)))
           /\ commandsProcessed' + commandsFailed'
                = commandsProcessed + commandsFailed + 1

\* C29: a delivered message whose body is not parseable JSON causes no device
\* request; one error status is published (when connected), commandsFailed
\* grows by one, commandsProcessed does not change, and the message delivered
\* next is processed normally.
C29_BadMessage ==
  /\ []C29_ErrorOnly
  /\ [][C29_Delivery]_vars

\* A message that did not parse was counted as a failure, and the message
\* delivered after it reached the device and completed.
C29_Witness ==
  /\ build = "push"
  /\ commandsFailed = 1
  /\ commandsProcessed = 1
  /\ deviceBudget = MaxDeviceFaults
  /\ handled.ans # NoAnswer
  /\ outcome = "completed"
  /\ Len(DeviceOps) = 1

\* The counters add up to the number of calls of executeCommand and
\* processCommand that have returned.
C30_Total == commandsProcessed + commandsFailed = finished

\* A step in which a command is handled moves exactly one counter by one,
\* commandsProcessed when the command completed and commandsFailed when it did
\* not; every other step (a poll, an entry that is passed over, a connect
\* attempt, a heartbeat, the periodic publish) leaves both alone.
C30_Step ==
  IF ExecuteStep \/ DeliverStep
    THEN /\ outcome' \in {"completed", "failed"}
         /\ commandsProcessed'
              = commandsProcessed + (IF outcome' = "completed" THEN 1 ELSE 0)
         /\ commandsFailed'
              = commandsFailed + (IF outcome' = "completed" THEN 0 ELSE 1)
    ELSE UNCHANGED <<commandsProcessed, commandsFailed>>

\* C30: in both builds commandsProcessed + commandsFailed is the number of
\* commands whose handling has finished; each handled command adds one to
\* exactly one counter, to commandsProcessed iff it completed, and no other
\* step changes a counter.
C30_Counters ==
  /\ []C30_Total
  /\ [][C30_Step]_vars

\* Pull build: a command has completed and another has failed, and a later
\* poll has found nothing to do.
C30_Witness ==
  /\ build = "pull"
  /\ commandsProcessed >= 1
  /\ commandsFailed >= 1
  /\ pc = "loop"
  /\ tickDecision = "polled"
  /\ resp = <<>>

\* Push build: a message has completed and another has failed, and a later
\* iteration of loop() has made a connect attempt.
C30_WitnessPush ==
  /\ build = "push"
  /\ commandsProcessed = 1
  /\ commandsFailed = 1
  /\ tick.attempted

\* The calls of the last connectMQTT after its connect: a subscribe on the
\* command topic, and after it the publish of the online status.
C31_Announced(cs) ==
  /\ Len(cs) >= 3
  /\ cs[1] = ConnectCall
  /\ cs[2] = SubscribeCall(MQTT_TOPIC_COMMAND)
  /\ \E i \in 3..Len(cs) : cs[i] = [op |-> "publish", body |-> OnlineJson]

\* A session that is up was subscribed on the command topic by the
\* connectMQTT that opened it.
C31_Subscribed == (build = "push" /\ link) => (subscribed /\ C31_Announced(sessionCalls))

\* A connect that succeeds, in setup() or in loop(), is followed in the same
\* call by the subscribe and the online status, and an iteration of loop()
\* that runs mqttClient.loop() finds the session subscribed.
C31_Step ==
  /\ (build = "push" /\ ~link /\ link') =>
       (pc' = "loop" /\ subscribed' /\ C31_Announced(sessionCalls'))
  /\ (build = "push" /\ pc = "loop" /\ clock' # clock /\ tick'.looped) =>
       (link /\ subscribed)

\* C31: in the push build every successful connect is followed, before
\* control is back in loop(), by a subscribe request on the command topic and
\* a publish of the online status, and mqttClient.loop() never runs on a
\* session for which no subscribe was issued since its connect.
C31_SubscribedWhenReceiving ==
  /\ []C31_Subscribed
  /\ [][C31_Step]_vars

\* A session opened by a reconnect after a failed attempt is subscribed and
\* mqttClient.loop() has run on it.
C31_Witness ==
  /\ build = "push"
  /\ link
  /\ tick.looped
  /\ gap >= 0
  /\ C31_Announced(sessionCalls)

\* An iteration of loop() of the pull build.
C32_LoopStep == build = "pull" /\ pc = "loop" /\ clock' # clock

\* An iteration that finds the poll interval elapsed on the wrapping clock
\* takes a poll decision, query or skip, and moves lastPollTime to the time
\* of the decision in both cases, so that the decision lies at least
\* POLL_INTERVAL_MS after the one before it; an iteration that finds less
\* elapsed takes none and leaves lastPollTime alone.
C32_Step ==
  C32_LoopStep =>
    IF Elapsed(clock', lastPollTime) >= Units(POLL_INTERVAL_MS)
      THEN /\ tickDecision' \in {"polled", "skipped"}
           /\ lastPollTime' = clock'
           /\ Elapsed(lastPollTime', lastPollTime) >= Units(POLL_INTERVAL_MS)
      ELSE /\ tickDecision' = "idle"
           /\ lastPollTime' = lastPollTime

\* lastPollTime and the clock are values of the wrapping clock.
C32_InRange ==
  build = "pull" => (lastPollTime \in 0..(clockWrap - 1) /\ clock \in 0..(clockWrap - 1))

\* C32: in the pull build two consecutive poll decisions (query issued or
\* cycle skipped) are at least POLL_INTERVAL_MS apart on the clock,
\* lastPollTime advances also when the cycle is skipped, and the elapsed-time
\* test is right across the wrap-around of the clock (difference modulo the
\* clock's period).
C32_PollCadence ==
  /\ []C32_InRange
  /\ [][C32_Step]_vars

\* The clock has wrapped around in loop() and the first decision after the
\* wrap, a skip, has moved lastPollTime.
C32_Witness ==
  /\ build = "pull"
  /\ firebaseReady
  /\ tickDecision = "skipped"
  /\ lastPollTime = clock
  /\ clock < Units(POLL_INTERVAL_MS)

\* The clock has wrapped around in loop() and a query was issued at the first
\* decision after the wrap.
C32_WitnessPolled ==
  /\ build = "pull"
  /\ firebaseReady
  /\ tickDecision = "polled"
  /\ lastPollTime = clock
  /\ clock < Units(POLL_INTERVAL_MS)
====
